---- MODULE Spec2Model ----
(***************************************************************************)
(* The emulated 8-bit processor of src/src/cpu.rs and its flat memory of   *)
(* src/src/memory.rs, driven by a caller shaped like src/src/main.rs:      *)
(* construct, stage a program with Memory::write, call run().              *)
(*                                                                         *)
(* A Vec<u8> of `size` zero-initialised bytes is represented by its size   *)
(* and the function `data` from the addresses holding a non-zero byte to   *)
(* that byte; every other address below `size` holds 0.                    *)
(***************************************************************************)
EXTENDS Integers, Sequences, FiniteSets, TLC

VARIABLES pc, acc, reg_a, reg_b, memory, halted, sp, interrupts_enabled,
          phase, runs, entry, trace, api

cpuvars == <<pc, acc, reg_a, reg_b, memory, halted, sp, interrupts_enabled>>
vars == <<pc, acc, reg_a, reg_b, memory, halted, sp, interrupts_enabled,
          phase, runs, entry, trace, api>>

\* ---------------------------------------------------------------- widths
U8 == 256
U16 == 65536

\* ---------------------------------------------------------------- bounds
MaxSteps == 5
MaxRuns == 2
MaxApi == 2
SmallSize == 8
StackTop == 6

\* ------------------------------------------------------ results and errors
NoErr == [kind |-> "None", a |-> 0, b |-> 0]
MkErr(kind, a, b) == [kind |-> kind, a |-> a, b |-> b]

Ok(c, v) == [st |-> "Ok", val |-> v, err |-> NoErr, c |-> c]
Err(c, e) == [st |-> "Err", val |-> 0, err |-> e, c |-> c]
Panic(c, e) == [st |-> "Panic", val |-> 0, err |-> e, c |-> c]
IsOk(r) == r.st = "Ok"

OutOfBoundsKinds ==
    {"ReadOutOfBounds", "WriteOutOfBounds", "ReadU16OutOfBounds", "WriteU16OutOfBounds"}

\* ------------------------------------------------------------- bit helpers
RECURSIVE BitAnd(_, _)
BitAnd(x, y) ==
    IF x = 0 \/ y = 0 THEN 0
    ELSE (x % 2) * (y % 2) + 2 * BitAnd(x \div 2, y \div 2)

RECURSIVE BitOr(_, _)
BitOr(x, y) ==
    IF x = 0 THEN y
    ELSE IF y = 0 THEN x
    ELSE (IF x % 2 = 1 \/ y % 2 = 1 THEN 1 ELSE 0) + 2 * BitOr(x \div 2, y \div 2)

RECURSIVE BitXor(_, _)
BitXor(x, y) ==
    IF x = 0 THEN y
    ELSE IF y = 0 THEN x
    ELSE ((x + y) % 2) + 2 * BitXor(x \div 2, y \div 2)

Shl8(x) == (x * 256) % U16
Shr8(x) == x \div 256

\* Mutant of wrapping_add8: the sum saturates at 255.
saturating_add8(x, y) == IF x + y >= U8 THEN U8 - 1 ELSE x + y

wrapping_add8(x, y) == (x + y) % U8
wrapping_sub8(x, y) == (x - y + U8) % U8
wrapping_mul8(x, y) == (x * y) % U8
wrapping_add16(x, y) == (x + y) % U16

\* ------------------------------------------------------------------ Memory
Memory_new(size) == [size |-> size, data |-> [x \in {} |-> 0]]

At(m, address) == IF address \in DOMAIN m.data THEN m.data[address] ELSE 0

Put(m, address, value) ==
    [m EXCEPT !.data =
        IF value = 0
        THEN [x \in (DOMAIN m.data) \ {address} |-> m.data[x]]
        ELSE [x \in (DOMAIN m.data) \cup {address} |->
                 IF x = address THEN value ELSE m.data[x]]]

MOk(m, v) == [st |-> "Ok", val |-> v, err |-> NoErr, m |-> m]
MErr(m, e) == [st |-> "Err", val |-> 0, err |-> e, m |-> m]

Memory_read(m, address) ==
    IF address >= m.size
    THEN MErr(m, MkErr("ReadOutOfBounds", address, 0))
    ELSE MOk(m, At(m, address))

Memory_write(m, address, value) ==
    IF address >= m.size
    THEN MErr(m, MkErr("WriteOutOfBounds", address, 0))
    ELSE MOk(Put(m, address, value), 0)

\* Mutant of read_u16: the byte at `address` is taken as the high byte.
Memory_read_u16_big_endian(m, address) ==
    IF address + 1 >= m.size
    THEN MErr(m, MkErr("ReadU16OutOfBounds", address, 0))
    ELSE LET low == At(m, address + 1)
             high == At(m, address)
         IN MOk(m, BitOr(Shl8(high), low))

Memory_read_u16(m, address) ==
    IF address + 1 >= m.size
    THEN MErr(m, MkErr("ReadU16OutOfBounds", address, 0))
    ELSE LET low == At(m, address)
             high == At(m, address + 1)
         IN MOk(m, BitOr(Shl8(high), low))

\* Mutant of write_u16: only the low byte's address is checked up front, so
\* the low byte is stored before the high byte is found out of range.
Memory_write_u16_low_first(m, address, value) ==
    IF address >= m.size
    THEN MErr(m, MkErr("WriteU16OutOfBounds", address, 0))
    ELSE IF address + 1 >= m.size
    THEN MErr(Put(m, address, BitAnd(value, 255)),
              MkErr("WriteU16OutOfBounds", address, 0))
    ELSE MOk(Put(Put(m, address, BitAnd(value, 255)),
                 address + 1, BitAnd(Shr8(value), 255)), 0)

Memory_write_u16(m, address, value) ==
    IF address + 1 >= m.size
    THEN MErr(m, MkErr("WriteU16OutOfBounds", address, 0))
    ELSE LET low == BitAnd(value, 255)
             high == BitAnd(Shr8(value), 255)
         IN MOk(Put(Put(m, address, low), address + 1, high), 0)

\* --------------------------------------------------------------------- CPU
\* A method of the processor returns Ok or Err together with the processor
\* as the call leaves it; `?` is written out as the test on the result.
\* Mutant of CPU::new: the stack pointer starts at the top of the address
\* space.
CPU_new_sp_at_top(memory_size) ==
    [pc |-> 0, acc |-> 0, reg_a |-> 0, reg_b |-> 0,
     memory |-> Memory_new(memory_size), halted |-> FALSE, sp |-> U16 - 1,
     interrupts_enabled |-> FALSE]

CPU_new(memory_size) ==
    [pc |-> 0, acc |-> 0, reg_a |-> 0, reg_b |-> 0,
     memory |-> Memory_new(memory_size), halted |-> FALSE, sp |-> 0,
     interrupts_enabled |-> FALSE]

\* Mutant of fetch: pc is advanced with saturating_add and stays at 0xFFFF.
fetch_saturating_pc(c) ==
    LET r == Memory_read(c.memory, c.pc)
    IN IF ~IsOk(r) THEN Err(c, r.err)
       ELSE Ok([c EXCEPT !.pc = IF c.pc + 1 >= U16 THEN U16 - 1 ELSE c.pc + 1], r.val)

fetch(c) ==
    LET r == Memory_read(c.memory, c.pc)
    IN IF ~IsOk(r) THEN Err(c, r.err)
       ELSE Ok([c EXCEPT !.pc = wrapping_add16(c.pc, 1)], r.val)

\* The second fetch of fetch_address and the combination of the two bytes.
fetch_high(lo) ==
    IF ~IsOk(lo) THEN lo
    ELSE LET hi == fetch(lo.c)
         IN IF ~IsOk(hi) THEN hi
            ELSE Ok(hi.c, BitOr(Shl8(hi.val), lo.val))

fetch_address(c) == fetch_high(fetch(c))

mov(c) == Ok([c EXCEPT !.reg_b = c.reg_a], 0)

mul(c) == Ok([c EXCEPT !.acc = wrapping_mul8(c.reg_a, c.reg_b)], 0)

\* Mutant of div: the quotient is taken of acc, not of reg_a.
div_of_acc(c) ==
    IF c.reg_b = 0
    THEN Err(c, MkErr("DivisionByZero", 0, 0))
    ELSE Ok([c EXCEPT !.acc = c.acc \div c.reg_b], 0)

div(c) ==
    IF c.reg_b = 0
    THEN Err(c, MkErr("DivisionByZero", 0, 0))
    ELSE Ok([c EXCEPT !.acc = c.reg_a \div c.reg_b], 0)

cmp(c) == Ok(c, 0)

\* Mutant of call_push: the pc pushed is the address of the opcode's
\* operand, as if read before the operand fetch.
call_push_stale_pc(a) ==
    IF ~IsOk(a) THEN a
    ELSE IF a.c.sp < 2
    THEN Err(a.c, MkErr("StackOverflow", 0, 0))
    ELSE LET c2 == [a.c EXCEPT !.sp = a.c.sp - 2]
             w == Memory_write_u16(c2.memory, c2.sp, (c2.pc - 2 + U16) % U16)
         IN IF ~IsOk(w) THEN Err(c2, w.err)
            ELSE Ok([c2 EXCEPT !.memory = w.m, !.pc = a.val], 0)

\* call after its first line: a is the result of the operand fetch.
call_push(a) ==
    IF ~IsOk(a) THEN a
    ELSE IF a.c.sp < 2
    THEN Err(a.c, MkErr("StackOverflow", 0, 0))
    ELSE LET c2 == [a.c EXCEPT !.sp = a.c.sp - 2]
             w == Memory_write_u16(c2.memory, c2.sp, c2.pc)
         IN IF ~IsOk(w) THEN Err(c2, w.err)
            ELSE Ok([c2 EXCEPT !.memory = w.m, !.pc = a.val], 0)

call(c) == call_push(fetch_address(c))

\* `self.sp += 2` overflows u16 when sp >= 0xFFFE: a build with overflow
\* checks panics there, a build without them wraps.
ret(c, overflow_checks) ==
    IF c.sp + 2 >= U16 /\ overflow_checks
    THEN Panic(c, MkErr("AddOverflow", 0, 0))
    ELSE LET c2 == [c EXCEPT !.sp = wrapping_add16(c.sp, 2)]
             w == Memory_write_u16(c2.memory, c2.sp, c2.pc)
         IN IF ~IsOk(w) THEN Err(c2, w.err)
            ELSE Ok([c2 EXCEPT !.memory = w.m], 0)

\* `self.pc = <result>.unwrap()`: a failed result panics.
unwrap_into_pc(a) ==
    IF ~IsOk(a) THEN Panic(a.c, a.err)
    ELSE Ok([a.c EXCEPT !.pc = a.val], 0)

jp(c, condition) ==
    IF condition THEN unwrap_into_pc(fetch_address(c)) ELSE Ok(c, 0)

jn(c, condition) ==
    IF condition THEN unwrap_into_pc(fetch_address(c)) ELSE Ok(c, 0)

\* Mutant of int_push: the stack pointer is decremented with wrapping_sub.
int_push_wrapping_sp(a) ==
    IF ~IsOk(a) THEN a
    ELSE LET w == Memory_write_u16(a.c.memory, a.c.sp, a.c.pc)
         IN IF ~IsOk(w)
            THEN Err(a.c, MkErr("FailedToWriteToMemory", 0, 0))
            ELSE Ok([a.c EXCEPT !.memory = w.m,
                                !.sp = (a.c.sp - 2 + U16) % U16,
                                !.pc = a.val], 0)

\* int after its first line: a is the result of the vector fetch.
int_push(a) ==
    IF ~IsOk(a) THEN a
    ELSE LET w == Memory_write_u16(a.c.memory, a.c.sp, a.c.pc)
         IN IF ~IsOk(w)
            THEN Err(a.c, MkErr("FailedToWriteToMemory", 0, 0))
            ELSE IF a.c.sp < 2
            THEN Err([a.c EXCEPT !.memory = w.m], MkErr("StackUnderflow", 0, 0))
            ELSE Ok([a.c EXCEPT !.memory = w.m, !.sp = a.c.sp - 2, !.pc = a.val], 0)

int(c) == int_push(fetch_address(c))

cli(c) == Ok([c EXCEPT !.interrupts_enabled = FALSE], 0)

sei(c) == Ok([c EXCEPT !.interrupts_enabled = TRUE], 0)

push(c, value) ==
    IF c.sp < 1
    THEN Err(c, MkErr("StackUnderflow", 0, 0))
    ELSE LET c2 == [c EXCEPT !.sp = c.sp - 1]
             w == Memory_write(c2.memory, c2.sp, value)
         IN IF ~IsOk(w)
            THEN Err(c2, MkErr("FailedToPush", w.err.a, 0))
            ELSE Ok([c2 EXCEPT !.memory = w.m], 0)

\* Mutant of pop: the stack pointer is incremented before the read.
pop_pre_increment(c) ==
    LET r == Memory_read(c.memory, wrapping_add16(c.sp, 1))
    IN IF ~IsOk(r) THEN Err(c, r.err)
       ELSE Ok([c EXCEPT !.sp = wrapping_add16(c.sp, 1)], r.val)

pop(c) ==
    LET r == Memory_read(c.memory, c.sp)
    IN IF ~IsOk(r) THEN Err(c, r.err)
       ELSE Ok([c EXCEPT !.sp = wrapping_add16(c.sp, 1)], r.val)

\* The arms of execute that begin `let address = self.fetch_address()?`,
\* after that line: a is the result of the operand fetch.  read_at is the
\* `self.memory.read(address as usize)?` that six of them go on with.
read_at(a) ==
    IF ~IsOk(a) THEN a
    ELSE LET r == Memory_read(a.c.memory, a.val)
         IN IF ~IsOk(r) THEN Err(a.c, r.err) ELSE Ok(a.c, r.val)

load(r) == IF ~IsOk(r) THEN r ELSE Ok([r.c EXCEPT !.acc = r.val], 0)

\* Mutant of store: the byte written is reg_a, not the accumulator.
store_reg_a(a) ==
    IF ~IsOk(a) THEN a
    ELSE LET w == Memory_write(a.c.memory, a.val, a.c.reg_a)
         IN IF ~IsOk(w) THEN Err(a.c, w.err)
            ELSE Ok([a.c EXCEPT !.memory = w.m], 0)

store(a) ==
    IF ~IsOk(a) THEN a
    ELSE LET w == Memory_write(a.c.memory, a.val, a.c.acc)
         IN IF ~IsOk(w) THEN Err(a.c, w.err)
            ELSE Ok([a.c EXCEPT !.memory = w.m], 0)

add(r) ==
    IF ~IsOk(r) THEN r ELSE Ok([r.c EXCEPT !.acc = wrapping_add8(r.c.acc, r.val)], 0)

sub(r) ==
    IF ~IsOk(r) THEN r ELSE Ok([r.c EXCEPT !.acc = wrapping_sub8(r.c.acc, r.val)], 0)

and(r) == IF ~IsOk(r) THEN r ELSE Ok([r.c EXCEPT !.acc = BitAnd(r.c.acc, r.val)], 0)

or(r) == IF ~IsOk(r) THEN r ELSE Ok([r.c EXCEPT !.acc = BitOr(r.c.acc, r.val)], 0)

xor(r) == IF ~IsOk(r) THEN r ELSE Ok([r.c EXCEPT !.acc = BitXor(r.c.acc, r.val)], 0)

jmp(a) == IF ~IsOk(a) THEN a ELSE Ok([a.c EXCEPT !.pc = a.val], 0)

\* Mutant of jz: the operand is consumed only when the jump is taken, so
\* a jump not taken leaves pc on the operand's first byte.
jz_lazy_operand(a) ==
    IF ~IsOk(a) THEN a
    ELSE IF a.c.acc = 0 THEN Ok([a.c EXCEPT !.pc = a.val], 0)
    ELSE Ok([a.c EXCEPT !.pc = (a.c.pc - 2 + U16) % U16], 0)

jz(a) ==
    IF ~IsOk(a) THEN a
    ELSE IF a.c.acc = 0 THEN Ok([a.c EXCEPT !.pc = a.val], 0) ELSE Ok(a.c, 0)

jnz(a) ==
    IF ~IsOk(a) THEN a
    ELSE IF a.c.acc # 0 THEN Ok([a.c EXCEPT !.pc = a.val], 0) ELSE Ok(a.c, 0)

\* LDA after `self.fetch()?`, POP after `self.pop()?`.
lda(f) == IF ~IsOk(f) THEN f ELSE Ok([f.c EXCEPT !.acc = f.val], 0)

pop_reg_a(r) == IF ~IsOk(r) THEN r ELSE Ok([r.c EXCEPT !.reg_a = r.val], 0)

\* Mutant of unknown_instruction: an undefined opcode is skipped as a no-op.
unknown_instruction_skipped(c, instruction) == Ok(c, 0)

\* The `_` arm of execute: the message carries the opcode and self.pc as it
\* is when the message is formatted.
unknown_instruction(c, instruction) ==
    Err(c, MkErr("UnknownInstruction", instruction, c.pc))

execute(c, instruction, overflow_checks) ==
    CASE instruction = 1 -> load(read_at(fetch_address(c)))     \* 0x01 LOAD
      [] instruction = 2 -> store(fetch_address(c))             \* 0x02 STORE
      [] instruction = 3 -> add(read_at(fetch_address(c)))      \* 0x03 ADD
      [] instruction = 4 -> sub(read_at(fetch_address(c)))      \* 0x04 SUB
      [] instruction = 7 ->                                     \* 0x07 INC
           Ok([c EXCEPT !.acc = wrapping_add8(c.acc, 1)], 0)
      [] instruction = 8 ->                                     \* 0x08 DEC
           Ok([c EXCEPT !.acc = wrapping_sub8(c.acc, 1)], 0)
      [] instruction = 9 -> and(read_at(fetch_address(c)))      \* 0x09 AND
      [] instruction = 10 -> or(read_at(fetch_address(c)))      \* 0x0A OR
      [] instruction = 11 -> xor(read_at(fetch_address(c)))     \* 0x0B XOR
      [] instruction = 16 -> jmp(fetch_address(c))              \* 0x10 JMP
      [] instruction = 17 -> jz(fetch_address(c))               \* 0x11 JZ
      [] instruction = 18 -> jnz(fetch_address(c))              \* 0x12 JNZ
      [] instruction = 19 -> lda(fetch(c))                      \* 0x13 LDA
      [] instruction = 20 -> mov(c)                             \* 0x14 MOV
      [] instruction = 21 -> mul(c)                             \* 0x15 MUL
      [] instruction = 22 -> div(c)                             \* 0x16 DIV
      [] instruction = 23 -> cmp(c)                             \* 0x17 CMP
      [] instruction = 24 -> call(c)                            \* 0x18 CALL
      [] instruction = 25 -> ret(c, overflow_checks)            \* 0x19 RET
      [] instruction = 26 -> jp(c, TRUE)                        \* 0x1A JP
      [] instruction = 27 -> jn(c, TRUE)                        \* 0x1B JN
      [] instruction = 28 -> int(c)                             \* 0x1C INT
      [] instruction = 29 -> cli(c)                             \* 0x1D CLI
      [] instruction = 30 -> sei(c)                             \* 0x1E SEI
      [] instruction = 31 -> push(c, c.reg_a)                   \* 0x1F PUSH
      [] instruction = 32 -> pop_reg_a(pop(c))                  \* 0x20 POP
      [] instruction = 255 -> Ok([c EXCEPT !.halted = TRUE], 0) \* 0xFF HALT
      [] OTHER -> unknown_instruction(c, instruction)

\* The arm of run()'s inner `if let Err(err) = self.execute(instruction)`:
\* what the iteration that fetched `op` did, and the processor it leaves.
on_execute(op, e) ==
    CASE e.st = "Ok" ->
           [st |-> "Ok", op |-> op, err |-> NoErr, c |-> e.c]
      [] e.st = "Err" ->
           [st |-> "ExecErr", op |-> op, err |-> e.err,
            c |-> [e.c EXCEPT !.halted = TRUE]]
      [] OTHER ->
           [st |-> "Panic", op |-> op, err |-> e.err, c |-> e.c]

\* The `match self.fetch()` of run(): op = -1 when the opcode fetch failed.
on_fetch(f, overflow_checks) ==
    IF ~IsOk(f)
    THEN [st |-> "FetchErr", op |-> -1, err |-> f.err,
          c |-> [f.c EXCEPT !.halted = TRUE]]
    ELSE on_execute(f.val, execute(f.c, f.val, overflow_checks))

\* One iteration of the body of `while !self.halted`.
run_step(c, overflow_checks) == on_fetch(fetch(c), overflow_checks)

\* ------------------------------------------------------------ the caller
Cpu ==
    [pc |-> pc, acc |-> acc, reg_a |-> reg_a, reg_b |-> reg_b,
     memory |-> memory, halted |-> halted, sp |-> sp,
     interrupts_enabled |-> interrupts_enabled]

SetCpu(c) ==
    /\ pc' = c.pc
    /\ acc' = c.acc
    /\ reg_a' = c.reg_a
    /\ reg_b' = c.reg_b
    /\ memory' = c.memory
    /\ halted' = c.halted
    /\ sp' = c.sp
    /\ interrupts_enabled' = c.interrupts_enabled

Lo(a) == a % 256
Hi(a) == a \div 256

DefinedOpcodes == (1 .. 4) \cup (7 .. 11) \cup (16 .. 32) \cup {255}
AddressOpcodes == {1, 2, 3, 4, 9, 10, 11, 16, 17, 18, 24, 26, 27, 28}
SampleUnknown == {5, 12, 254}

Sizes == {0, 1, SmallSize, U16}
Bases(size) == {0, U16 - 3} \cup (IF size > 0 THEN {size - 1} ELSE {})
Targets(base) == {(base + 3) % U16, 32, base}

Instrs(base) ==
    {<<op>> : op \in DefinedOpcodes \cup SampleUnknown}
    \cup {<<op, Lo(a), Hi(a)>> : op \in AddressOpcodes, a \in Targets(base)}
    \cup {<<19, 10>>}

StackInstrs(base) ==
    LET t == (base + 3) % U16
    IN {<<31>>, <<32>>, <<25>>, <<24, Lo(t), Hi(t)>>, <<28, Lo(t), Hi(t)>>}

MainProgram == <<19, 10, 7, 2, 32, 0, 255>>

Programs(base) ==
    {<< >>} \cup Instrs(base)
    \cup {i \o j : i \in StackInstrs(base), j \in StackInstrs(base)}
    \cup {MainProgram}

StackPointers(size) ==
    {0, 1, 2, StackTop, IF size < U16 THEN size ELSE U16 - 1, U16 - 2, U16 - 1}

RegFiles(size) ==
    [sp : StackPointers(size), reg_a : {5, 255}, reg_b : {0, 2}, acc : {0, 255}]

\* The writes of main, in order; the first one that fails ends the staging
\* (the `?` returns), the bytes written before it stay.
RECURSIVE write_all(_, _, _)
write_all(m, address, bytes) ==
    IF bytes = << >> THEN MOk(m, 0)
    ELSE LET w == Memory_write(m, address, Head(bytes))
         IN IF ~IsOk(w) THEN w
            ELSE write_all(w.m, (address + 1) % U16, Tail(bytes))

Snapshot == [c |-> Cpu, steps |-> Len(trace)]

Init ==
    \E size \in Sizes :
        LET c == CPU_new(size)
        IN /\ pc = c.pc
           /\ acc = c.acc
           /\ reg_a = c.reg_a
           /\ reg_b = c.reg_b
           /\ memory = c.memory
           /\ halted = c.halted
           /\ sp = c.sp
           /\ interrupts_enabled = c.interrupts_enabled
           /\ phase = "new"
           /\ runs = 0
           /\ trace = << >>
           /\ api = << >>
           /\ entry = [c |-> c, steps |-> 0]

\* The caller stages a program at `base`, byte by byte, and sets the public
\* register fields; a failed write ends the caller before run() is reached.
Stage(w, base, regs) ==
    /\ IF ~IsOk(w)
       THEN /\ memory' = w.m
            /\ phase' = "aborted"
            /\ UNCHANGED <<pc, acc, reg_a, reg_b, sp>>
       ELSE /\ memory' = w.m
            /\ phase' = "staged"
            /\ pc' = base
            /\ sp' = regs.sp
            /\ reg_a' = regs.reg_a
            /\ reg_b' = regs.reg_b
            /\ acc' = regs.acc
    /\ UNCHANGED <<halted, interrupts_enabled, runs, entry, trace, api>>

StageProgram ==
    /\ phase = "new"
    /\ api = << >>
    /\ \E base \in Bases(memory.size) :
          \E bytes \in Programs(base) :
              \E regs \in RegFiles(memory.size) :
                  Stage(write_all(memory, base, bytes), base, regs)

\* main as written: the seven program bytes go to 0..6 of the processor
\* just constructed and no register field is assigned.
StageMain ==
    /\ phase = "new"
    /\ api = << >>
    /\ Stage(write_all(memory, 0, MainProgram), 0,
             [sp |-> sp, reg_a |-> reg_a, reg_b |-> reg_b, acc |-> acc])

\* cpu.run() is called: the first time by main, or by a caller that loaded
\* nothing into the processor it constructed; again by a caller that
\* invokes the run loop on the processor it already ran.
RunEnter ==
    /\ phase \in {"staged", "returned"} \/ (phase = "new" /\ api = << >>)
    /\ runs < MaxRuns
    /\ phase' = "running"
    /\ runs' = runs + 1
    /\ entry' = Snapshot
    /\ UNCHANGED <<pc, acc, reg_a, reg_b, memory, halted, sp, interrupts_enabled,
                   trace, api>>

\* The iteration r is carried out: a panic unwinds out of run() and ends the
\* caller, anything else goes back to the loop condition.
Stepped(r) ==
    /\ SetCpu(r.c)
    /\ trace' = Append(trace,
          [at |-> pc, op |-> r.op, st |-> r.st, err |-> r.err, pre |-> Cpu])
    /\ phase' = IF r.st = "Panic" THEN "panicked" ELSE "running"
    /\ UNCHANGED <<runs, entry, api>>

\* Mutant of Step: the loop body runs without the `!self.halted` test.
Step_IgnoresHalted ==
    /\ phase = "running"
    /\ Len(trace) < MaxSteps
    /\ \E overflow_checks \in BOOLEAN : Stepped(run_step(Cpu, overflow_checks))

Step ==
    /\ phase = "running"
    /\ ~halted
    /\ Len(trace) < MaxSteps
    /\ \E overflow_checks \in BOOLEAN : Stepped(run_step(Cpu, overflow_checks))

RunReturn ==
    /\ phase = "running"
    /\ halted
    /\ phase' = "returned"
    /\ UNCHANGED <<pc, acc, reg_a, reg_b, memory, halted, sp, interrupts_enabled,
                   runs, entry, trace, api>>

\* ---------------------------------------------- direct use of the Memory
ApiEnabled == phase = "new" /\ Len(api) < MaxApi

ApiAddrs(size) ==
    {0, size, size + 1}
    \cup (IF size > 0 THEN {size - 1} ELSE {})
    \cup (IF size > 1 THEN {size - 2} ELSE {})
ApiBytes == {171}
ApiWords == {4660, 65535, 256}

ApiCall(fn, address, value, r) ==
    /\ memory' = r.m
    /\ api' = Append(api, [fn |-> fn, address |-> address, value |-> value,
                           before |-> memory, res |-> [st |-> r.st, val |-> r.val,
                                                       err |-> r.err]])
    /\ UNCHANGED <<pc, acc, reg_a, reg_b, halted, sp, interrupts_enabled,
                   phase, runs, entry, trace>>

ApiRead ==
    /\ ApiEnabled
    /\ \E address \in ApiAddrs(memory.size) :
        ApiCall("read", address, 0, Memory_read(memory, address))

ApiWrite ==
    /\ ApiEnabled
    /\ \E address \in ApiAddrs(memory.size) : \E value \in ApiBytes :
        ApiCall("write", address, value, Memory_write(memory, address, value))

ApiReadU16 ==
    /\ ApiEnabled
    /\ \E address \in ApiAddrs(memory.size) :
        ApiCall("read_u16", address, 0, Memory_read_u16(memory, address))

ApiWriteU16 ==
    /\ ApiEnabled
    /\ \E address \in ApiAddrs(memory.size) : \E value \in ApiWords :
        ApiCall("write_u16", address, value, Memory_write_u16(memory, address, value))

Next ==
    \/ StageProgram
    \/ StageMain
    \/ RunEnter
    \/ Step
    \/ RunReturn
    \/ ApiRead
    \/ ApiWrite
    \/ ApiReadU16
    \/ ApiWriteU16

Spec == Init /\ [][Next]_vars

\* ------------------------------------------ every byte value as an opcode
\* The caller stages a single byte, any of the 256, as the program.
RegFilesDecode == [sp : {0, StackTop}, reg_a : {5}, reg_b : {2}, acc : {255}]

StageOpcode ==
    /\ phase = "new"
    /\ api = << >>
    /\ \E base \in Bases(memory.size) :
          \E op \in 0 .. 255 :
              \E regs \in RegFilesDecode :
                  Stage(write_all(memory, base, <<op>>), base, regs)

NextDecode ==
    \/ StageOpcode
    \/ RunEnter
    \/ Step
    \/ RunReturn

SpecDecode == Init /\ [][NextDecode]_vars

\* ------------------------------------------------- reading the history
\* trace[i] is the i-th iteration of the run loop: the address its opcode
\* was fetched from, the opcode, how it ended, and the processor before it.
\* PostOf(i) is the processor after it.
PostOf(i) == IF i < Len(trace) THEN trace[i + 1].pre ELSE Cpu

Regs(c) == <<c.acc, c.reg_a, c.reg_b, c.sp, c.interrupts_enabled>>

\* The operand bytes of the instruction whose opcode is at `at` can be fetched.
OperandFetchable(c, at) ==
    /\ (at + 1) % U16 < c.memory.size
    /\ (at + 2) % U16 < c.memory.size

OperandOf(c, at) ==
    At(c.memory, (at + 1) % U16) + 256 * At(c.memory, (at + 2) % U16)

\* The processor main hands to run(): constructed with `size` bytes, the
\* program at 0..6, every register as constructed.
MainStaged(size) ==
    [CPU_new(size) EXCEPT !.memory = write_all(Memory_new(size), 0, MainProgram).m]

\* Two memories agree at every address outside S.
SameExcept(m1, m2, S) ==
    /\ m1.size = m2.size
    /\ \A x \in ((DOMAIN m1.data) \cup (DOMAIN m2.data)) \ S : At(m1, x) = At(m2, x)

\* ------------------------------------------------------------------ C1
\* C1: once halted is true, a call of run() performs no fetch/execute step
\* and leaves pc, acc, reg_a, reg_b, sp, interrupts_enabled, halted and the
\* whole memory as they were when run() was called, whatever halted the
\* processor: from the call to the return, the processor equals the one
\* run() was entered with and the history has not grown.
C1_HaltedRunChangesNothing ==
    (phase \in {"running", "returned"} /\ entry.c.halted)
        => (Cpu = entry.c /\ Len(trace) = entry.steps)

\* run() has been called again, and has returned, on a processor that an
\* execute error had halted.
C1_Witness ==
    /\ phase = "returned"
    /\ runs = 2
    /\ entry.c.halted
    /\ Len(trace) > 0
    /\ trace[Len(trace)].st = "ExecErr"

\* ------------------------------------------------------------------ C2
\* C2: every iteration of the run loop that fails (opcode fetch, execute,
\* operand fetch) leaves halted = true and is the last iteration; every
\* iteration that succeeds leaves halted = false unless its opcode was HALT;
\* run() is never left with halted = false.
C2_FailedStepHalts ==
    /\ \A i \in 1 .. Len(trace) :
          /\ trace[i].st # "Ok" => (PostOf(i).halted /\ i = Len(trace))
          /\ (trace[i].st = "Ok" /\ trace[i].op # 255) => ~PostOf(i).halted
    /\ phase = "returned" => halted

\* ------------------------------------------------------------------ C3
\* C3: an opcode byte outside the 27 defined ones fails with
\* UnknownInstruction, ends the run loop with halted = true, and leaves acc,
\* reg_a, reg_b, sp, interrupts_enabled and the memory as before the step.
C3_DecodeCompleteness ==
    \A i \in 1 .. Len(trace) :
        (trace[i].op \in (0 .. 255) \ DefinedOpcodes) =>
            /\ trace[i].st = "ExecErr"
            /\ trace[i].err.kind = "UnknownInstruction"
            /\ i = Len(trace)
            /\ PostOf(i).halted
            /\ Regs(PostOf(i)) = Regs(trace[i].pre)
            /\ PostOf(i).memory = trace[i].pre.memory

\* run() has returned after decoding the undefined opcode 0x21 with
\* non-zero registers.
C3_Witness ==
    /\ phase = "returned"
    /\ Len(trace) = 1
    /\ trace[1].op = 33
    /\ trace[1].pre.acc = 255
    /\ trace[1].pre.sp = StackTop

\* ------------------------------------------------------------------ C4
\* C4: DIV with reg_b = 0 fails with DivisionByZero, keeps acc and ends the
\* run with halted = true; DIV with reg_b # 0 succeeds and sets acc to the
\* integer quotient reg_a / reg_b.
C4_Div ==
    \A i \in 1 .. Len(trace) :
        trace[i].op = 22 =>
            IF trace[i].pre.reg_b = 0
            THEN /\ trace[i].st = "ExecErr"
                 /\ trace[i].err.kind = "DivisionByZero"
                 /\ PostOf(i).acc = trace[i].pre.acc
                 /\ PostOf(i).halted
                 /\ i = Len(trace)
            ELSE /\ trace[i].st = "Ok"
                 /\ PostOf(i).acc * trace[i].pre.reg_b <= trace[i].pre.reg_a
                 /\ trace[i].pre.reg_a < (PostOf(i).acc + 1) * trace[i].pre.reg_b

\* run() has returned after a DIV by zero with reg_a = 5 and acc = 255.
C4_Witness ==
    /\ phase = "returned"
    /\ Len(trace) = 1
    /\ trace[1].op = 22
    /\ trace[1].pre.reg_a = 5
    /\ trace[1].pre.reg_b = 0
    /\ trace[1].pre.acc = 255
    /\ trace[1].err.kind = "DivisionByZero"

\* ------------------------------------------------------------------ C5
\* C5: PUSH immediately followed by POP, from 1 <= sp <= size with the
\* pushed byte's address sp-1 on neither instruction byte: PUSH succeeds,
\* writes reg_a at sp-1 and sets sp := sp-1; POP succeeds, and after it
\* reg_a and sp have their values from before the PUSH.
C5_PushPopRoundTrip ==
    \A i \in 1 .. Len(trace) :
        LET e == trace[i]
            popAt == (e.at + 1) % U16
        IN (/\ e.op = 31
            /\ e.pre.sp \in 1 .. e.pre.memory.size
            /\ popAt < e.pre.memory.size
            /\ At(e.pre.memory, popAt) = 32
            /\ (e.pre.sp - 1) \notin {e.at, popAt})
           => /\ e.st = "Ok"
              /\ PostOf(i).sp = e.pre.sp - 1
              /\ At(PostOf(i).memory, e.pre.sp - 1) = e.pre.reg_a
              /\ i < Len(trace) =>
                    /\ trace[i + 1].op = 32
                    /\ trace[i + 1].st = "Ok"
                    /\ PostOf(i + 1).reg_a = e.pre.reg_a
                    /\ PostOf(i + 1).sp = e.pre.sp

\* PUSH then POP have both run, from sp = size (the pushed byte is the last
\* byte of the memory) and reg_a = 255.
C5_Witness ==
    /\ Len(trace) >= 2
    /\ trace[1].op = 31
    /\ trace[1].pre.reg_a = 255
    /\ trace[1].pre.sp = SmallSize
    /\ trace[1].pre.memory.size = SmallSize
    /\ trace[2].op = 32
    /\ trace[2].st = "Ok"

\* ------------------------------------------------------------------ C6
\* C6: after a successful CALL from sp >= 2, a RET executed as the first
\* instruction of the subroutine succeeds and leaves pc at the address after
\* the CALL's operand and sp at its value from before the CALL.
C6_CallRetReturns ==
    \A i \in 1 .. Len(trace) :
        (/\ i < Len(trace)
         /\ trace[i].op = 24
         /\ trace[i].st = "Ok"
         /\ trace[i].pre.sp >= 2
         /\ trace[i + 1].op = 25)
        => /\ trace[i + 1].st = "Ok"
           /\ PostOf(i + 1).pc = (trace[i].at + 3) % U16
           /\ PostOf(i + 1).sp = trace[i].pre.sp

\* ------------------------------------------------------------------ C7
\* C7: CALL with its operand addr, from sp >= 2 and sp-1 < size, succeeds:
\* sp := sp-2, the address after the operand (opcode address + 3 mod 2^16)
\* is at the new sp as a little-endian word, pc := addr, and acc, reg_a,
\* reg_b, interrupts_enabled, halted and every other memory byte are as
\* before.
C7_Call ==
    \A i \in 1 .. Len(trace) :
        LET e == trace[i]
            q == PostOf(i)
            return == (e.at + 3) % U16
            nsp == e.pre.sp - 2
        IN (/\ e.op = 24
            /\ OperandFetchable(e.pre, e.at)
            /\ e.pre.sp >= 2
            /\ e.pre.sp - 1 < e.pre.memory.size)
           => /\ e.st = "Ok"
              /\ q.sp = nsp
              /\ At(q.memory, nsp) = return % 256
              /\ At(q.memory, nsp + 1) = return \div 256
              /\ q.pc = OperandOf(e.pre, e.at)
              /\ <<q.acc, q.reg_a, q.reg_b, q.interrupts_enabled, q.halted>>
                   = <<e.pre.acc, e.pre.reg_a, e.pre.reg_b,
                       e.pre.interrupts_enabled, e.pre.halted>>
              /\ SameExcept(q.memory, e.pre.memory, {nsp, nsp + 1})

\* A CALL at 0xFFFD has run in the 64K memory: its return address wraps to
\* 0x0000 and is pushed from sp = 6.
C7_Witness ==
    /\ Len(trace) >= 1
    /\ trace[1].op = 24
    /\ trace[1].at = U16 - 3
    /\ trace[1].pre.sp = StackTop
    /\ trace[1].st = "Ok"
    /\ PostOf(1).pc = 32

\* ------------------------------------------------------------------ C8
\* C8: a successful INT with vector v from sp >= 2 pushes like CALL: sp is
\* 2 lower, the little-endian word at the new sp is the address after the
\* operand, pc = v, and no byte at an address >= the old sp is modified.
C8_IntPushes ==
    \A i \in 1 .. Len(trace) :
        LET e == trace[i]
            q == PostOf(i)
            return == (e.at + 3) % U16
            nsp == e.pre.sp - 2
        IN (e.op = 28 /\ e.st = "Ok" /\ e.pre.sp >= 2)
           => /\ q.sp = nsp
              /\ At(q.memory, nsp) = return % 256
              /\ At(q.memory, nsp + 1) = return \div 256
              /\ q.pc = OperandOf(e.pre, e.at)
              /\ \A x \in (DOMAIN q.memory.data) \cup (DOMAIN e.pre.memory.data) :
                    x >= e.pre.sp => At(q.memory, x) = At(e.pre.memory, x)

\* ------------------------------------------------------------------ C9
\* C9: PUSH with sp = 0, and CALL and INT with sp < 2, fail, leave sp at
\* its value (no wrap to 0xFFFF/0xFFFE) and end the run with halted = true;
\* the error is the stack error (PUSH, INT: stack underflow; CALL: not
\* enough stack space) whenever the instruction got as far as the stack,
\* that is, its operand bytes could be fetched.
C9_StackUnderflowIsAnError ==
    \A i \in 1 .. Len(trace) :
        LET e == trace[i]
            failed == /\ e.st = "ExecErr"
                      /\ PostOf(i).sp = e.pre.sp
                      /\ PostOf(i).halted
                      /\ i = Len(trace)
        IN /\ (e.op = 31 /\ e.pre.sp = 0)
                => (failed /\ e.err.kind = "StackUnderflow")
           /\ (e.op = 24 /\ e.pre.sp < 2)
                => /\ failed
                   /\ OperandFetchable(e.pre, e.at) => e.err.kind = "StackOverflow"
           /\ (e.op = 28 /\ e.pre.sp < 2)
                => /\ failed
                   /\ OperandFetchable(e.pre, e.at) => e.err.kind = "StackUnderflow"

\* run() has returned after an INT, operand fetched, from sp = 1.
C9_Witness ==
    /\ phase = "returned"
    /\ Len(trace) = 1
    /\ trace[1].op = 28
    /\ trace[1].pre.sp = 1
    /\ OperandFetchable(trace[1].pre, trace[1].at)
    /\ trace[1].err.kind = "StackUnderflow"

\* ----------------------------------------------------------------- C10
\* C10: read and write fail with an out-of-bounds error naming the address
\* for every address >= size; read_u16 and write_u16 fail so for every
\* address with address + 1 >= size; and after any failed call the memory
\* is byte for byte what it was before the call.
C10_BoundsEnforced ==
    \A i \in 1 .. Len(api) :
        LET e == api[i]
            after == IF i < Len(api) THEN api[i + 1].before ELSE memory
            refused == /\ e.res.st = "Err"
                       /\ e.res.err.kind \in OutOfBoundsKinds
                       /\ e.res.err.a = e.address
        IN /\ (e.fn \in {"read", "write"} /\ e.address >= e.before.size) => refused
           /\ (e.fn \in {"read_u16", "write_u16"} /\ e.address + 1 >= e.before.size)
                => refused
           /\ e.res.st = "Err" => after = e.before

\* write_u16 at size-1 (low byte in range, high byte not) has failed on a
\* memory that an earlier write had made non-zero.
C10_Witness ==
    /\ Len(api) = 2
    /\ api[1].fn = "write"
    /\ api[1].res.st = "Ok"
    /\ api[2].fn = "write_u16"
    /\ api[2].before.size = SmallSize
    /\ api[2].address = SmallSize - 1
    /\ api[2].res.st = "Err"

\* ----------------------------------------------------------------- C11
\* C11: write_u16(addr, v) with addr + 1 < size succeeds, stores the low
\* byte of v at addr and the high byte at addr + 1 and changes no other
\* byte; a read_u16(addr) that follows it returns exactly v.
C11_U16RoundTrip ==
    \A i \in 1 .. Len(api) :
        LET e == api[i]
            after == IF i < Len(api) THEN api[i + 1].before ELSE memory
        IN (e.fn = "write_u16" /\ e.address + 1 < e.before.size)
           => /\ e.res.st = "Ok"
              /\ At(after, e.address) = e.value % 256
              /\ At(after, e.address + 1) = e.value \div 256
              /\ SameExcept(after, e.before, {e.address, e.address + 1})
              /\ (/\ i < Len(api)
                  /\ api[i + 1].fn = "read_u16"
                  /\ api[i + 1].address = e.address)
                 => /\ api[i + 1].res.st = "Ok"
                    /\ api[i + 1].res.val = e.value

\* 0x1234 has been written with write_u16 at the last word of the small
\* memory and read back from there with read_u16.
C11_Witness ==
    /\ Len(api) = 2
    /\ api[1].fn = "write_u16"
    /\ api[1].before.size = SmallSize
    /\ api[1].address = SmallSize - 2
    /\ api[1].value = 4660
    /\ api[2].fn = "read_u16"
    /\ api[2].address = SmallSize - 2
    /\ api[2].res.val = 4660

\* ----------------------------------------------------------------- C12
\* C12: INC, DEC and MUL always succeed, and ADD and SUB succeed whenever
\* their operand can be fetched and addresses a byte of the memory; the
\* accumulator becomes (acc + 1), (acc - 1), (reg_a * reg_b), (acc + byte),
\* (acc - byte) modulo 256, and the step does not halt the processor.
C12_ArithmeticWraps ==
    \A i \in 1 .. Len(trace) :
        LET e == trace[i]
            q == PostOf(i)
            addr == OperandOf(e.pre, e.at)
            readable == OperandFetchable(e.pre, e.at) /\ addr < e.pre.memory.size
            byte == At(e.pre.memory, addr)
            done == e.st = "Ok" /\ ~q.halted
        IN /\ e.op = 7 => (done /\ q.acc = (e.pre.acc + 1) % 256)
           /\ e.op = 8 => (done /\ q.acc = (e.pre.acc + 255) % 256)
           /\ e.op = 21 => (done /\ q.acc = (e.pre.reg_a * e.pre.reg_b) % 256)
           /\ (e.op = 3 /\ readable)
                => (done /\ q.acc = (e.pre.acc + byte) % 256)
           /\ (e.op = 4 /\ readable)
                => (done /\ q.acc = (e.pre.acc + 256 - byte) % 256)

\* ADD has run with acc = 0xFF on its own opcode byte 0x03: the sum 0x102
\* wrapped to 0x02.
C12_Witness ==
    /\ Len(trace) >= 1
    /\ trace[1].op = 3
    /\ trace[1].pre.acc = 255
    /\ OperandOf(trace[1].pre, trace[1].at) = trace[1].at
    /\ trace[1].st = "Ok"
    /\ PostOf(1).acc = 2

\* ----------------------------------------------------------------- C13
\* C13: on the processor each iteration starts from, fetch() with pc < size
\* returns Memory[pc] and only sets pc := (pc + 1) mod 2^16, and with
\* pc >= size fails with the read out-of-bounds error for pc and changes
\* nothing; fetch_address() with both bytes in range returns
\* first + 256 * second and only sets pc := (pc + 2) mod 2^16.  The run loop
\* shows the same: the opcode is Memory[pc], a failed opcode fetch leaves pc,
\* and a JMP lands on the little-endian word that follows its opcode.
C13_Fetch ==
    \A i \in 1 .. Len(trace) :
        LET e == trace[i]
            c == e.pre
            f == fetch(c)
            a == fetch_address(c)
            next == (c.pc + 1) % U16
        IN /\ e.at = c.pc
           /\ IF c.pc >= c.memory.size
              THEN /\ f.st = "Err"
                   /\ f.err = MkErr("ReadOutOfBounds", c.pc, 0)
                   /\ f.c = c
                   /\ e.st = "FetchErr"
                   /\ PostOf(i).pc = c.pc
              ELSE /\ f.st = "Ok"
                   /\ f.val = At(c.memory, c.pc)
                   /\ f.c = [c EXCEPT !.pc = next]
                   /\ e.op = f.val
           /\ (c.pc < c.memory.size /\ next < c.memory.size)
                => /\ a.st = "Ok"
                   /\ a.val = At(c.memory, c.pc) + 256 * At(c.memory, next)
                   /\ a.c = [c EXCEPT !.pc = (c.pc + 2) % U16]
           /\ (e.op = 16 /\ OperandFetchable(c, c.pc))
                => /\ e.st = "Ok"
                   /\ PostOf(i).pc = OperandOf(c, c.pc)
           /\ (e.op \in {7, 8, 20, 21, 23, 29, 30} /\ e.st = "Ok")
                => PostOf(i).pc = next

\* An INC fetched from 0xFFFF of the 64K memory has run: pc went on to 0.
C13_Witness ==
    /\ Len(trace) >= 1
    /\ trace[1].at = U16 - 1
    /\ trace[1].op = 7
    /\ PostOf(1).pc = 0

\* ----------------------------------------------------------------- C14
\* C14: an UnknownInstruction error raised for the opcode fetched from
\* address p carries that opcode byte, Memory[p], and the program counter
\* p the opcode was fetched from.
C14_UnknownInstructionCarriesFetchPc ==
    \A i \in 1 .. Len(trace) :
        trace[i].err.kind = "UnknownInstruction"
            => /\ trace[i].err.a = At(trace[i].pre.memory, trace[i].at)
               /\ trace[i].err.b = trace[i].at

\* ----------------------------------------------------------------- C15
\* C15: run() on the freshly constructed processor holding main's program
\* at 0..6 (memory large enough to have the address 0x0020) executes LDA,
\* INC, STORE, HALT, each successfully, and nothing else; when it returns,
\* exactly those four instructions have run, acc = 11, Memory[0x0020] = 11,
\* pc = 7, halted = true and the bytes at 0..6 are the program's.
C15_MainScenario ==
    (/\ memory.size > 32
     /\ Len(trace) >= 1
     /\ trace[1].pre = MainStaged(memory.size))
    => /\ Len(trace) <= 4
       /\ \A i \in 1 .. Len(trace) :
             trace[i].op = <<19, 7, 2, 255>>[i] /\ trace[i].st = "Ok"
       /\ halted => Len(trace) = 4
       /\ phase = "returned"
            => /\ Len(trace) = 4
               /\ acc = 11
               /\ At(memory, 32) = 11
               /\ pc = 7
               /\ halted
               /\ \A k \in 1 .. Len(MainProgram) : At(memory, k - 1) = MainProgram[k]

\* run() has returned from main's program in the 64K memory.
C15_Witness ==
    /\ phase = "returned"
    /\ memory.size = 64 * 1024
    /\ Len(trace) = 4
    /\ trace[1].pre = MainStaged(memory.size)
    /\ At(memory, 32) = 11

\* ----------------------------------------------------------------- C16
\* C16: JZ and JNZ whose operand bytes can be fetched succeed; pc becomes
\* the operand address when the condition holds (JZ: acc = 0, JNZ:
\* acc # 0) and opcode address + 3 (mod 2^16) when it does not; acc, sp,
\* reg_a, reg_b and the memory are unchanged.
C16_ConditionalJumps ==
    \A i \in 1 .. Len(trace) :
        LET e == trace[i]
            q == PostOf(i)
            taken == IF e.op = 17 THEN e.pre.acc = 0 ELSE e.pre.acc # 0
        IN (e.op \in {17, 18} /\ OperandFetchable(e.pre, e.at))
           => /\ e.st = "Ok"
              /\ q.pc = IF taken THEN OperandOf(e.pre, e.at) ELSE (e.at + 3) % U16
              /\ <<q.acc, q.sp, q.reg_a, q.reg_b>>
                   = <<e.pre.acc, e.pre.sp, e.pre.reg_a, e.pre.reg_b>>
              /\ q.memory = e.pre.memory

\* A JZ to 0x0020 at 0xFFFD has run with acc = 0xFF: not taken, pc wrapped
\* past the operand to 0x0000.
C16_Witness ==
    /\ Len(trace) >= 1
    /\ trace[1].op = 17
    /\ trace[1].at = U16 - 3
    /\ trace[1].pre.acc = 255
    /\ OperandOf(trace[1].pre, trace[1].at) = 32
    /\ PostOf(1).pc = 0

\* ----------------------------------------------------------------- C17
\* C17: an iteration that decodes JP or JN ends exactly as the same
\* iteration would have with JMP in its place: same outcome, same error,
\* same processor afterwards.  With the operand fetched, pc is the operand
\* address and nothing else changed; with an operand byte out of range, the
\* iteration ends in the propagated fetch error with halted = true.
C17_JpJnAreJmp ==
    \A i \in 1 .. Len(trace) :
        LET e == trace[i]
            q == PostOf(i)
            asJmp == on_execute(e.op, jmp(fetch_address(fetch(e.pre).c)))
        IN e.op \in {26, 27}
           => /\ e.st = asJmp.st
              /\ e.err = asJmp.err
              /\ q = asJmp.c
              /\ IF OperandFetchable(e.pre, e.at)
                 THEN /\ e.st = "Ok"
                      /\ q = [e.pre EXCEPT !.pc = OperandOf(e.pre, e.at)]
                 ELSE /\ e.st = "ExecErr"
                      /\ e.err.kind = "ReadOutOfBounds"
                      /\ q.halted

\* ----------------------------------------------------------------- C18
\* C18: RET sets sp := sp + 2, writes the address after its opcode as a
\* little-endian word at the new sp, changes no other byte and leaves pc
\* on the address after its opcode; when new sp + 1 >= size it fails with
\* the 16-bit write out-of-bounds error and the run halts.
C18_RetAsImplemented ==
    \A i \in 1 .. Len(trace) :
        LET e == trace[i]
            q == PostOf(i)
            nsp == e.pre.sp + 2
            after == (e.at + 1) % U16
        IN e.op = 25
           => IF nsp + 1 >= e.pre.memory.size
              THEN /\ e.st = "ExecErr"
                   /\ e.err.kind = "WriteU16OutOfBounds"
                   /\ q.halted
              ELSE /\ e.st = "Ok"
                   /\ q.sp = nsp
                   /\ At(q.memory, nsp) = after % 256
                   /\ At(q.memory, nsp + 1) = after \div 256
                   /\ SameExcept(q.memory, e.pre.memory, {nsp, nsp + 1})
                   /\ q.pc = after

\* ----------------------------------------------------------------- C19
\* C19: when the instruction of a defined opcode fails, acc, reg_a, reg_b,
\* sp, interrupts_enabled and every memory byte are as before the
\* instruction; only pc and halted may differ.
C19_FailureAtomicity ==
    \A i \in 1 .. Len(trace) :
        (trace[i].op \in DefinedOpcodes /\ trace[i].st # "Ok")
            => /\ Regs(PostOf(i)) = Regs(trace[i].pre)
               /\ PostOf(i).memory = trace[i].pre.memory

\* ----------------------------------------------------------------- C20
\* C20: a processor as constructed has pc = acc = reg_a = reg_b = sp = 0,
\* halted = false, interrupts_enabled = false and every memory byte 0.
\* run() on it with nothing loaded performs exactly one iteration: with
\* size >= 1 the opcode 0x00 fails with UnknownInstruction and the
\* processor ends with halted = true, pc = 1 and everything else still
\* zero; with size = 0 the opcode fetch fails and the processor ends with
\* halted = true and pc = 0.
C20_FreshProcessor ==
    LET fresh == [pc |-> 0, acc |-> 0, reg_a |-> 0, reg_b |-> 0,
                  memory |-> [size |-> memory.size, data |-> << >>],
                  halted |-> FALSE, sp |-> 0, interrupts_enabled |-> FALSE]
    IN /\ (phase = "new" /\ api = << >>) => Cpu = fresh
       /\ (Len(trace) >= 1 /\ trace[1].pre = fresh)
            => /\ Len(trace) = 1
               /\ IF memory.size >= 1
                  THEN /\ trace[1].op = 0
                       /\ trace[1].st = "ExecErr"
                       /\ trace[1].err.kind = "UnknownInstruction"
                       /\ trace[1].err.a = 0
                       /\ Cpu = [fresh EXCEPT !.pc = 1, !.halted = TRUE]
                  ELSE /\ trace[1].st = "FetchErr"
                       /\ Cpu = [fresh EXCEPT !.halted = TRUE]

\* run() has returned on a one-byte processor that was constructed and
\* given no program: pc = 1 = size.
C20_Witness ==
    /\ phase = "returned"
    /\ memory.size = 1
    /\ Len(trace) = 1
    /\ trace[1].pre = CPU_new(1)
    /\ trace[1].err.kind = "UnknownInstruction"
    /\ pc = 1

====
